---------------------------- MODULE Spec2Model ----------------------------
(***************************************************************************)
(* Model of the Loop AI hospital assistant: ConversationMemory and         *)
(* LoopAIAgent of agent.py, driven by the chat handler of main.py.         *)
(*                                                                         *)
(* Text is modelled as a sequence of one-character strings, so that the    *)
(* substring tests, strip(), lower() and capitalize() of the code are      *)
(* computed, not assumed.                                                  *)
(***************************************************************************)
EXTENDS Integers, Sequences, FiniteSets, TLC

VARIABLES
    history,          \* ConversationMemory.history
    context,          \* ConversationMemory.context (a dict: a function on its keys)
    max_history,      \* ConversationMemory.max_history
    added,            \* every turn passed to add_interaction since creation / clear()
    session_started,  \* LoopAIAgent.session_started
    session_state,    \* main.session_state["is_first_message"]
    pc,               \* position of the process_query call in flight
    user_query,       \* argument of the call in flight / last call
    is_first_message, \* argument of the call in flight / last call
    intro,            \* local intro of process_query (TRUE: the brief intro)
    intent,           \* local intent of process_query / result of _extract_intent
    hospitals,        \* local hospitals of process_query
    attempt,          \* loop variable of the generation loop
    result,           \* what the last process_query call gave its caller
    searchCalls,      \* search calls issued by the call in flight / last call
    genCalls,         \* ollama.chat calls issued by the call in flight / last call
    recorded,         \* add_interaction calls made by the call in flight / last call
    last_outcome,     \* how the latest generation attempt of that call ended
    turns,            \* number of process_query calls started
    files,            \* the dataset file at each path
    cache_file,       \* the file rag_cache/tfidf_index.pkl
    rag_engine,       \* the global rag_engine of rag_engine.py
    rag_call,         \* the last search call, with what the vectorizer gave it
    rag_result,       \* what that call returned
    waiting,          \* conversations with a request awaiting its body in chat()
    callers,          \* the conversation of every process_query call started
    served,           \* every turn given to add_interaction, with its conversation
    overlap,          \* a turn was added while another request was waiting
    rejections        \* attempts of the call in flight / last call that were rejected

memVars == <<history, context, max_history, added>>
agentVars == <<session_started, session_state, pc, user_query, is_first_message,
               intro, intent, hospitals, attempt, result, searchCalls, genCalls,
               recorded, last_outcome, turns>>
ragVars == <<files, cache_file, rag_engine, rag_call, rag_result>>
vars == <<history, context, max_history, added, session_started, session_state,
          pc, user_query, is_first_message, intro, intent, hospitals, attempt,
          result, searchCalls, genCalls, recorded, last_outcome, turns,
          files, cache_file, rag_engine, rag_call, rag_result,
          waiting, callers, served, overlap, rejections>>
serverVars == <<waiting, callers, served, overlap, rejections>>

---------------------------------------------------------------------------
(* Bounds of the model *)

\* add_interaction calls explored beyond the cap of the memory
MaxOverflow == 1
\* process_query calls of one conversation
MaxTurns == 2
\* words of a composed utterance
MaxWords == 2
\* rows of a dataset file
MaxRows == 2
\* the largest k a search is called with
MaxK == 2

---------------------------------------------------------------------------
(* Python text operations *)

UpperChars == <<"A","B","C","D","E","F","G","H","I","J","K","L","M",
                "N","O","P","Q","R","S","T","U","V","W","X","Y","Z">>
LowerChars == <<"a","b","c","d","e","f","g","h","i","j","k","l","m",
                "n","o","p","q","r","s","t","u","v","w","x","y","z">>
Whitespace == {" ", "\t", "\n", "\r"}

\* str.lower() on one character
LowerChar(c) ==
    IF \E i \in 1..26 : UpperChars[i] = c
    THEN LowerChars[CHOOSE i \in 1..26 : UpperChars[i] = c]
    ELSE c

\* str.upper() on one character
UpperChar(c) ==
    IF \E i \in 1..26 : LowerChars[i] = c
    THEN UpperChars[CHOOSE i \in 1..26 : LowerChars[i] = c]
    ELSE c

\* str.lower()
Lower(s) == [i \in 1..Len(s) |-> LowerChar(s[i])]

\* str.capitalize(): first character upper-cased, the rest lower-cased
Capitalize(s) ==
    [i \in 1..Len(s) |-> IF i = 1 THEN UpperChar(s[i]) ELSE LowerChar(s[i])]

\* str.strip(): leading and trailing whitespace removed
Strip(s) ==
    LET keep == {i \in 1..Len(s) : s[i] \notin Whitespace}
    IN  IF keep = {} THEN <<>>
        ELSE LET lo == CHOOSE i \in keep : \A j \in keep : i <= j
                 hi == CHOOSE i \in keep : \A j \in keep : j <= i
             IN  SubSeq(s, lo, hi)

\* needle occurs in hay at position i (1-based)
OccursAt(hay, needle, i) ==
    /\ i >= 1
    /\ i + Len(needle) - 1 <= Len(hay)
    /\ \A j \in 1..Len(needle) : hay[i + j - 1] = needle[j]

\* Python's `needle in hay` on strings
Contains(hay, needle) ==
    \E i \in 1..(Len(hay) - Len(needle) + 1) : OccursAt(hay, needle, i)

\* any(w in text for w in words), words a sequence of strings
ContainsAny(text, words) ==
    \E n \in 1..Len(words) : Contains(text, words[n])

\* the orders in which list(set(...)) may enumerate a set
Orderings(S) ==
    {f \in [1..Cardinality(S) -> S] : \A i, j \in 1..Cardinality(S) : f[i] = f[j] => i = j}

\* xs[-n:] for n >= 1
LastN(xs, n) ==
    IF Len(xs) <= n THEN xs ELSE SubSeq(xs, Len(xs) - n + 1, Len(xs))

\* xs[:n]
FirstN(xs, n) ==
    IF Len(xs) <= n THEN xs ELSE SubSeq(xs, 1, n)

\* the values of a sequence
Range(xs) == {xs[i] : i \in 1..Len(xs)}

---------------------------------------------------------------------------
(* Hospital records the search engine may return: the built-in catalog *)

Apollo == [name |-> <<"A","p","o","l","l","o"," ","H","o","s","p","i","t","a","l">>, city |-> <<"B","a","n","g","a","l","o","r","e">>]
Manipal == [name |-> <<"M","a","n","i","p","a","l"," ","H","o","s","p","i","t","a","l">>, city |-> <<"B","a","n","g","a","l","o","r","e">>]
Fortis == [name |-> <<"F","o","r","t","i","s"," ","H","o","s","p","i","t","a","l">>, city |-> <<"D","e","l","h","i">>]

---------------------------------------------------------------------------
(* ConversationMemory *)

\* the default of max_history
DefaultMaxHistory == 10

\* the keyword lists of _update_context
ctx_confirm_words == << <<"c","o","n","f","i","r","m">>, <<"c","h","e","c","k">>, <<"i","s">> >>
ctx_search_words == << <<"f","i","n","d">>, <<"s","h","o","w">>, <<"l","i","s","t">>, <<"t","e","l","l">> >>
ctx_followup_words == << <<"m","o","r","e">>, <<"o","t","h","e","r">>, <<"a","d","d","i","t","i","o","n","a","l">> >>

\* a dict without keys
EmptyDict == <<>>

\* d[k] = v on a dict
DictSet(d, k, v) == (k :> v) @@ d

\* UpdateCities as it would be if the cities were accumulated over the turns
UpdateCitiesAccumulating(ctx, hs, order) ==
    IF hs # <<>>
    THEN DictSet(DictSet(ctx, "last_cities",
                         IF "last_cities" \in DOMAIN ctx
                         THEN order \o ctx["last_cities"] ELSE order),
                 "last_hospital_names", [i \in 1..Len(hs) |-> hs[i].name])
    ELSE ctx

\* the hospitals part of _update_context; `order` is the order in which
\* list(set(...)) happened to enumerate the cities
UpdateCities(ctx, hs, order) ==
    IF hs # <<>>
    THEN DictSet(DictSet(ctx, "last_cities", order),
                 "last_hospital_names", [i \in 1..Len(hs) |-> hs[i].name])
    ELSE ctx

\* the last_intent part of _update_context
UpdateIntent(ctx, query) ==
    LET query_lower == Lower(query)
    IN  IF ContainsAny(query_lower, ctx_confirm_words)
        THEN DictSet(ctx, "last_intent", "confirmation")
        ELSE IF ContainsAny(query_lower, ctx_search_words)
        THEN DictSet(ctx, "last_intent", "search")
        ELSE IF ContainsAny(query_lower, ctx_followup_words)
        THEN DictSet(ctx, "last_intent", "followup")
        ELSE ctx

\* the orders list(set([h['city'] for h in hospitals])) may produce
CityOrders(hs) == Orderings({hs[i].city : i \in 1..Len(hs)})

\* Evict as it would be if the slice kept the oldest turns, h[:cap]
EvictKeepsOldest(h, cap) == IF Len(h) > cap THEN FirstN(h, cap) ELSE h

\* history after append and truncation to the cap
Evict(h, cap) == IF Len(h) > cap THEN LastN(h, cap) ELSE h

\* add_interaction as it would be if it wrote back a copy of the history
\* taken before the append of the call before it
add_interaction_lost_update(q, a, hs) ==
    /\ history' = Evict(Append(FirstN(history, Len(history) - 1),
                               [user |-> q, assistant |-> a, hospitals |-> hs]),
                        max_history)
    /\ \E order \in CityOrders(hs) :
           context' = UpdateIntent(UpdateCities(context, hs, order), q)
    /\ added' = Append(added, [user |-> q, assistant |-> a, hospitals |-> hs])
    /\ UNCHANGED max_history

\* ConversationMemory.add_interaction, with the enumeration order of the
\* city set as the one nondeterministic outcome
add_interaction(q, a, hs) ==
    /\ history' = Evict(Append(history, [user |-> q, assistant |-> a, hospitals |-> hs]),
                        max_history)
    /\ \E order \in CityOrders(hs) :
           context' = UpdateIntent(UpdateCities(context, hs, order), q)
    /\ added' = Append(added, [user |-> q, assistant |-> a, hospitals |-> hs])
    /\ UNCHANGED max_history

\* ConversationMemory.get_last_city: a record with `some` FALSE stands for None
get_last_city(ctx) ==
    IF "last_cities" \in DOMAIN ctx
    THEN [some |-> TRUE, value |-> ctx["last_cities"][1]]
    ELSE [some |-> FALSE]

\* ConversationMemory.clear
clear ==
    /\ history' = <<>>
    /\ context' = EmptyDict
    /\ added' = <<>>
    /\ UNCHANGED max_history

---------------------------------------------------------------------------
(* LoopAIAgent: keyword lists and _is_hospital_related *)

greeting_words == { <<"h","i">>, <<"h","e","l","l","o">>, <<"h","e","y">>, <<"s","t","a","r","t">>, <<"h","e","l","p">> }

keywords ==
    << <<"h","o","s","p","i","t","a","l">>, <<"c","l","i","n","i","c">>, <<"m","e","d","i","c","a","l">>, <<"h","e","a","l","t","h">>, <<"d","o","c","t","o","r">>,
       <<"h","e","a","l","t","h","c","a","r","e">>, <<"n","e","t","w","o","r","k">>, <<"m","a","n","i","p","a","l">>, <<"a","p","o","l","l","o">>, <<"f","o","r","t","i","s">>,
       <<"b","a","n","g","a","l","o","r","e">>, <<"d","e","l","h","i">>, <<"l","o","c","a","t","i","o","n">>, <<"a","d","d","r","e","s","s">>, <<"f","i","n","d">>,
       <<"n","e","a","r">>, <<"a","r","o","u","n","d">>, <<"c","i","t","y">>, <<"c","o","n","f","i","r","m">>, <<"c","h","e","c","k">>,
       <<"a","v","a","i","l","a","b","l","e">>, <<"l","i","s","t">>, <<"t","e","l","l">> >>

\* _is_hospital_related as it would be with the filter switched off
_is_hospital_related_off(query) == TRUE

_is_hospital_related(query) == ContainsAny(Lower(query), keywords)

---------------------------------------------------------------------------
(* LoopAIAgent._extract_intent *)

confirmation_words == << <<"c","o","n","f","i","r","m">>, <<"i","s">>, <<"c","h","e","c","k">>, <<"v","e","r","i","f","y">> >>
followup_words == << <<"m","o","r","e">>, <<"o","t","h","e","r">>, <<"a","d","d","i","t","i","o","n","a","l">> >>
cities == << <<"b","a","n","g","a","l","o","r","e">>, <<"b","e","n","g","a","l","u","r","u">>, <<"d","e","l","h","i">>, <<"m","u","m","b","a","i">>, <<"c","h","e","n","n","a","i">>,
             <<"h","y","d","e","r","a","b","a","d">>, <<"p","u","n","e">>, <<"k","o","l","k","a","t","a">> >>
hospital_tokens == << <<"m","a","n","i","p","a","l">>, <<"a","p","o","l","l","o">>, <<"f","o","r","t","i","s">>, <<"m","a","x">>, <<"m","e","d","a","n","t","a">>,
                      <<"a","r","t","e","m","i","s">> >>
number_words == << <<"t","h","r","e","e">>, <<"f","i","v","e">>, <<"t","e","n">> >>

\* the value None of an optional field
None == [some |-> FALSE]
Some(v) == [some |-> TRUE, value |-> v]

\* the first element of `words` occurring in text (the for ... break loops)
FirstHit(text, words) ==
    IF ContainsAny(text, words)
    THEN Some(words[CHOOSE n \in 1..Len(words) :
                       /\ Contains(text, words[n])
                       /\ \A m \in 1..(n - 1) : ~Contains(text, words[m])])
    ELSE None

\* IntentType as it would be with the two tests in the other order
IntentTypeFollowupFirst(query_lower) ==
    IF ContainsAny(query_lower, followup_words) THEN "followup"
    ELSE IF ContainsAny(query_lower, confirmation_words) THEN "confirmation"
    ELSE "search"

\* intent['type']: first match wins
IntentType(query_lower) ==
    IF ContainsAny(query_lower, confirmation_words) THEN "confirmation"
    ELSE IF ContainsAny(query_lower, followup_words) THEN "followup"
    ELSE "search"

\* intent['city'] as found in the utterance
CityInQuery(query_lower) ==
    LET hit == FirstHit(query_lower, cities)
    IN  IF hit.some THEN Some(Capitalize(hit.value)) ELSE None

\* The pattern of the count: the source is the raw string
\*   r'\\b(\\d+|three|five|ten)\\b'
\* in which every `\\` is the regex for one literal backslash: the pattern
\* matches a backslash and the letter b, then either a backslash followed by
\* one or more letters d or one of the number words, then a backslash and
\* the letter b.
BackslashB == <<"\\", "b">>
DRun(n) == <<"\\">> \o [j \in 1..n |-> "d"]

\* the texts the group of the pattern can capture when the match starts at i
GroupsAt(text, i) ==
    {g \in {DRun(n) : n \in 1..Len(text)} \cup Range(number_words) :
        /\ OccursAt(text, BackslashB, i)
        /\ OccursAt(text, g, i + 2)
        /\ OccursAt(text, BackslashB, i + 2 + Len(g))}

\* re.findall(...)[0] when there is a match: the group of the leftmost match
FirstNumber(text) ==
    LET starts == {i \in 1..Len(text) : GroupsAt(text, i) # {}}
    IN  IF starts = {} THEN None
        ELSE LET first == CHOOSE i \in starts : \A j \in starts : i <= j
             IN  Some(CHOOSE g \in GroupsAt(text, first) : TRUE)

Digits == <<"0","1","2","3","4","5","6","7","8","9">>

\* str.isdigit()
IsDigit(s) == s # <<>> /\ \A i \in 1..Len(s) : s[i] \in Range(Digits)

\* int(s) of a digit string
RECURSIVE ParseInt(_)
ParseInt(s) ==
    IF s = <<>> THEN 0
    ELSE 10 * ParseInt(SubSeq(s, 1, Len(s) - 1))
         + (CHOOSE d \in 0..9 : Digits[d + 1] = s[Len(s)])

\* num_map.get(s, default)
NumMapGet(s, default) ==
    IF s = number_words[1] THEN 3
    ELSE IF s = number_words[2] THEN 5
    ELSE IF s = number_words[3] THEN 10
    ELSE default

\* the default count of an intent
DefaultCount == 3

\* intent['count']
ExtractCount(query_lower) ==
    LET numbers == FirstNumber(query_lower)
    IN  IF ~numbers.some THEN DefaultCount
        ELSE IF IsDigit(numbers.value)
             THEN NumMapGet(numbers.value, ParseInt(numbers.value))
             ELSE NumMapGet(numbers.value, 3)

\* _extract_intent as it would be if the city fell back to the memory for
\* every type of intent
_extract_intent_any_type(query, ctx) ==
    LET query_lower == Lower(query)
        type == IntentType(query_lower)
        found == CityInQuery(query_lower)
    IN  [type |-> type,
         city |-> IF ~found.some THEN get_last_city(ctx) ELSE found,
         hospital_name |-> FirstHit(query_lower, hospital_tokens),
         count |-> ExtractCount(query_lower)]

\* _extract_intent(query) against the memory's context
_extract_intent(query, ctx) ==
    LET query_lower == Lower(query)
        type == IntentType(query_lower)
        found == CityInQuery(query_lower)
    IN  [type |-> type,
         city |-> IF ~found.some /\ type = "followup" THEN get_last_city(ctx) ELSE found,
         hospital_name |-> FirstHit(query_lower, hospital_tokens),
         count |-> ExtractCount(query_lower)]

---------------------------------------------------------------------------
(* LoopAIAgent.process_query *)

\* the generation loop is `for attempt in range(1, 4)`
MaxAttempts == 3
\* the quality check is `20 < len(answer) < 500`
MinAnswerLen == 20
MaxAnswerLen == 500

\* the texts process_query can return: an optional intro and a body
Canned(kind) == [intro |-> FALSE, body |-> [kind |-> kind]]
greeting_message == Canned("greeting")
refusal_message == Canned("refusal")
error_message == Canned("error")

\* outcomes of a call: a returned value or a raised exception
Value(v) == [kind |-> "value", value |-> v]
Raise == [kind |-> "raise"]

\* What the generator can give back: an exception, or a message whose content
\* is a body (its length, and whether it begins with 'I apologize') between
\* `lead` and `trail` whitespace characters.
AnswerLens == {MinAnswerLen, MinAnswerLen + 1, MaxAnswerLen}
Bodies ==
    [kind : {"generated"}, len : AnswerLens, apology : {FALSE}]
    \cup [kind : {"generated"}, len : {MinAnswerLen + 1}, apology : {TRUE}]
Contents ==
    {[lead |-> p[1], trail |-> p[2], body |-> b] : p \in {<<0, 0>>, <<2, 1>>}, b \in Bodies}
GeneratorOutcomes == {Value(c) : c \in Contents} \cup {Raise}

\* response['message']['content'].strip() (the two replace calls keep the
\* length and the beginning of the text)
StripContent(c) == c.body

\* the shortest and the longest answer the quality check lets through
ShortAnswer == [kind |-> "generated", len |-> MinAnswerLen + 1, apology |-> FALSE]
LongAnswer == [kind |-> "generated", len |-> MaxAnswerLen - 1, apology |-> FALSE]

\* Acceptable as it would be with inclusive length bounds
AcceptableInclusive(answer) ==
    MinAnswerLen <= answer.len /\ answer.len <= MaxAnswerLen /\ ~answer.apology

\* the quality check of an answer
Acceptable(answer) ==
    MinAnswerLen < answer.len /\ answer.len < MaxAnswerLen /\ ~answer.apology

\* the fallback sentence built from the result set
Fallback(hs) ==
    IF hs # <<>>
    THEN [kind |-> "fallback", found |-> Len(hs),
          names |-> [i \in 1..Len(FirstN(hs, 3)) |-> hs[i].name]]
    ELSE [kind |-> "notfound"]

\* What the search engine can give back: a result list or an exception
ResultSets == { <<>>, <<Fortis>>, <<Apollo, Fortis, Manipal>> }
SearchOutcomes == {Value(r) : r \in ResultSets} \cup {Raise}

\* SearchCall as it would be if the dispatch looked at the type alone
SearchCallByType(query, it) ==
    IF it.type = "confirmation"
    THEN [fn |-> "search_by_name_and_city",
          name |-> IF it.hospital_name.some THEN it.hospital_name.value ELSE <<>>,
          city |-> it.city, k |-> it.count]
    ELSE [fn |-> "search_hospitals", query |-> query, k |-> it.count]

\* the search process_query issues for an intent
SearchCall(query, it) ==
    IF it.type = "confirmation" /\ it.hospital_name.some
    THEN [fn |-> "search_by_name_and_city", name |-> it.hospital_name.value,
          city |-> it.city, k |-> it.count]
    ELSE [fn |-> "search_hospitals", query |-> query, k |-> it.count]

\* Handled as it would be without the handler
Unhandled(outcome) == outcome

\* the `except Exception` around the body of process_query
Handled(outcome) ==
    IF outcome.kind = "raise" THEN Value(error_message) ELSE outcome

\* the first turn test of process_query
FirstTurn(ifm, started) == ifm \/ ~started

\* IsGreeting as it would be without strip() and lower()
IsGreetingExact(query) == query \in greeting_words

\* the greeting test of process_query
IsGreeting(query) == Lower(Strip(query)) \in greeting_words

\* process_query gives `outcome` to the chat handler, which then lowers
\* session_state["is_first_message"] unless the call raised
Return(outcome) ==
    /\ result' = outcome
    /\ pc' = "idle"
    /\ session_state' = IF outcome.kind = "raise" THEN session_state ELSE FALSE

\* the utterances of a conversation
AgentUtterances ==
    { <<" ","H","i"," ">>, <<"w","h","a","t","'","s"," ","t","h","e"," ","w","e","a","t","h","e","r">>, <<"i","s"," ","a","p","o","l","l","o"," ","i","n"," ","d","e","l","h","i">>,
      <<"f","i","n","d"," ","m","o","r","e">>, <<"c","h","e","c","k"," ","c","i","t","y">> }

\* chat() calls agent.process_query(q, session_state["is_first_message"]):
\* the call up to its first generation attempt or its early return
ProcessQuery(q) ==
    /\ pc = "idle"
    /\ turns < MaxTurns
    /\ turns' = turns + 1
    /\ user_query' = q
    /\ is_first_message' = session_state
    /\ genCalls' = 0
    /\ recorded' = 0
    /\ last_outcome' = "none"
    /\ UNCHANGED memVars
    /\ LET first == FirstTurn(session_state, session_started)
           it == _extract_intent(q, context)
       IN  /\ session_started' = (session_started \/ first)
           /\ intro' = first
           /\ IF first /\ IsGreeting(q)
              THEN /\ Return(Handled(Value(greeting_message)))
                   /\ searchCalls' = <<>>
                   /\ UNCHANGED <<intent, hospitals, attempt>>
              ELSE IF ~_is_hospital_related(q)
              THEN /\ Return(Handled(Value(refusal_message)))
                   /\ searchCalls' = <<>>
                   /\ UNCHANGED <<intent, hospitals, attempt>>
              ELSE /\ intent' = it
                   /\ searchCalls' = <<SearchCall(q, it)>>
                   /\ \E found \in SearchOutcomes :
                        IF found.kind = "raise"
                        THEN /\ Return(Handled(Raise))
                             /\ UNCHANGED <<hospitals, attempt>>
                        ELSE /\ hospitals' = found.value
                             /\ attempt' = 1
                             /\ pc' = "generating"
                             /\ UNCHANGED <<result, session_state>>

\* the turn is recorded and intro + answer returned
Answer(answer) ==
    /\ add_interaction(user_query, answer, hospitals)
    /\ recorded' = recorded + 1
    /\ Return(Handled(Value([intro |-> intro, body |-> answer])))
    /\ UNCHANGED attempt

\* what follows an attempt that did not give an acceptable answer and did
\* not raise: the next attempt, or after the last one the fallback
Rejected ==
    IF attempt < MaxAttempts
    THEN /\ attempt' = attempt + 1
         /\ UNCHANGED <<memVars, recorded, result, pc, session_state>>
    ELSE Answer(Fallback(hospitals))

\* Failed as it would be without `if attempt == 3: raise`: the loop ends
\* and the fallback follows
FailedFallsBack ==
    IF attempt = MaxAttempts
    THEN Answer(Fallback(hospitals))
    ELSE /\ attempt' = attempt + 1
         /\ UNCHANGED <<memVars, recorded, result, pc, session_state>>

\* Failed as it would be if the handler recorded the failed turn with the
\* generic error message before returning it
FailedRecordsTurn ==
    IF attempt = MaxAttempts
    THEN /\ add_interaction(user_query, error_message, hospitals)
         /\ recorded' = recorded + 1
         /\ Return(Handled(Raise))
         /\ UNCHANGED attempt
    ELSE /\ attempt' = attempt + 1
         /\ UNCHANGED <<memVars, recorded, result, pc, session_state>>

\* what follows an attempt that raised: the next attempt, or on the last
\* one `raise`, which the outer handler of process_query catches
Failed ==
    IF attempt = MaxAttempts
    THEN /\ Return(Handled(Raise))
         /\ UNCHANGED <<memVars, recorded, attempt>>
    ELSE /\ attempt' = attempt + 1
         /\ UNCHANGED <<memVars, recorded, result, pc, session_state>>

\* one pass of the generation loop: ollama.chat gives `out`
Attempt(out) ==
    /\ pc = "generating"
    /\ genCalls' = genCalls + 1
    /\ UNCHANGED <<session_started, user_query, is_first_message, intro, intent,
                   hospitals, searchCalls, turns>>
    /\ IF out.kind = "raise"
       THEN last_outcome' = "raised" /\ Failed
       ELSE IF Acceptable(StripContent(out.value))
       THEN last_outcome' = "accepted" /\ Answer(StripContent(out.value))
       ELSE last_outcome' = "rejected" /\ Rejected

\* memory.clear() between two calls of process_query
ClearMemory ==
    /\ pc = "idle"
    /\ clear
    /\ UNCHANGED agentVars

---------------------------------------------------------------------------
(* rag_engine.py: HospitalRAG, its cache file and its two searches.        *)
(* A similarity is kept in hundredths: 0.1 is 10, 1.0 is 100.              *)

\* ---- the dataset files read_csv finds ----

\* a file read_csv raises on (missing, empty, not a table)
Unreadable == [kind |-> "unreadable"]

\* a file read_csv parses: its header, the dtype pandas gives the name
\* column, and its rows, each aligned with the header
Table(header, dtype, rows) ==
    [kind |-> "table", columns |-> header, dtype |-> dtype, rows |-> rows]

Header == << <<" ","H","o","s","p","i","t","a","l"," ","N","a","m","e">>, <<"A","d","d","r","e","s","s">>, <<"C","I","T","Y"," ">> >>
ShortHeader == << <<"n","a","m","e">>, <<"a","d","d","r","e","s","s">>, <<"c","i","t","y">> >>

ApolloRow == << Apollo.name, <<"1","2","3"," ","M","a","i","n"," ","S","t">>, Apollo.city >>
ApolloAgain == << Apollo.name, <<"5"," ","H","i","l","l"," ","S","t">>, Apollo.city >>
ApolloPadded == << <<"A","p","o","l","l","o"," ","H","o","s","p","i","t","a","l"," ">>, <<"9"," ","R","i","n","g"," ","R","d">>, Apollo.city >>
ManipalRow == << Manipal.name, <<"4","5","6"," ","P","a","r","k"," ","A","v","e">>, Manipal.city >>
FortisRow == << Fortis.name, <<" ","7","8","9"," ","L","a","k","e"," ","R","d">>, Fortis.city >>

\* the rows the datasets are composed of
RowPool == {ApolloRow, ApolloAgain, ApolloPadded, FortisRow}

Tables ==
    UNION {{Table(Header, "object", rows) : rows \in [1..n -> RowPool]} : n \in 0..MaxRows}

\* a dataset whose hospital names are all numbers: pandas reads the column
\* as int64, not as strings
NumericTable ==
    Table(Header, "int64", << << <<"1","0","1">>, <<"1"," ","M","a","i","n"," ","S","t">>, Apollo.city >>,
                              << <<"1","0","2">>, <<"2"," ","M","a","i","n"," ","S","t">>, Fortis.city >> >>)

\* a dataset without a 'hospital name' column
MissingColumns == Table(ShortHeader, "object", <<ApolloRow>>)

Datasets == Tables \cup {NumericTable, MissingColumns, Unreadable}

\* the paths an engine is constructed for; csv_path defaults to the first
DefaultPath == "hospital.csv"
OtherPath == "other.csv"
Paths == {DefaultPath, OtherPath}
OtherDataset == Table(Header, "object", <<FortisRow, ManipalRow>>)

\* ---- the cache file rag_cache/tfidf_index.pkl ----

NoFile == [kind |-> "absent"]
\* a file pickle.load or the reading of its keys fails on
Corrupt == [kind |-> "corrupt"]
Saved(data) == [kind |-> "saved", data |-> data]

\* ---- _load_and_index_data ----

\* columns.str.strip().str.lower()
NormaliseColumns(columns) == [i \in DOMAIN columns |-> Lower(Strip(columns[i]))]

required_columns == << <<"h","o","s","p","i","t","a","l"," ","n","a","m","e">>, <<"a","d","d","r","e","s","s">>, <<"c","i","t","y">> >>

\* all(col in columns for col in required_columns)
HasRequiredColumns(columns) == Range(required_columns) \subseteq Range(columns)

\* the position of a column
Column(columns, col) == CHOOSE i \in DOMAIN columns : columns[i] = col

\* the DataFrame of a table: its rows by column name, with their index label
DataFrame(table) ==
    LET columns == NormaliseColumns(table.columns)
    IN  [dtype |-> table.dtype,
         rows |-> [i \in DOMAIN table.rows |->
                     [name |-> table.rows[i][Column(columns, required_columns[1])],
                      address |-> table.rows[i][Column(columns, required_columns[2])],
                      city |-> table.rows[i][Column(columns, required_columns[3])],
                      index |-> i - 1]]]

\* drop_duplicates(subset=['hospital name', 'city']): the first row of each
\* (name, city) is kept, the values compared as they are in the file
drop_duplicates(rows) ==
    SelectSeq(rows, LAMBDA r : \A j \in 1..r.index :
                  ~(rows[j].name = r.name /\ rows[j].city = r.city))

\* the metadata the loop over the rows builds
BuildMetadata(rows) ==
    [i \in DOMAIN rows |->
        [name |-> Strip(rows[i].name), city |-> Strip(rows[i].city),
         address |-> Strip(rows[i].address), index |-> rows[i].index]]

\* the vectorizers: the n-gram range tells the two apart
Vectorizer == [ngram_range |-> <<1, 3>>]
DummyVectorizer == [ngram_range |-> <<1, 2>>]

\* what fit_transform and the writing of the cache can do
FitOutcomes == {"fitted", "raise"}
SaveOutcomes == {"written", "unwritable", "truncated"}

\* the object after the assignments of __init__, before loading
NewEngine(csv_path, use_cache) ==
    [csv_path |-> csv_path, use_cache |-> use_cache, hospitals_df |-> None,
     metadata |-> <<>>, vectorizer |-> None, tfidf_matrix |-> None]

\* the fixed demo catalog
dummy_data ==
    << [name |-> Apollo.name, address |-> <<"1","2","3"," ","M","a","i","n"," ","S","t">>, city |-> Apollo.city],
       [name |-> Manipal.name, address |-> <<"4","5","6"," ","P","a","r","k"," ","A","v","e">>, city |-> Manipal.city],
       [name |-> Fortis.name, address |-> <<"7","8","9"," ","L","a","k","e"," ","R","d">>, city |-> Fortis.city] >>

\* _create_dummy_data as it would be if it left the engine as it found it
_create_no_data(e) == e

_create_dummy_data(e) ==
    LET rows == [i \in DOMAIN dummy_data |->
                    [name |-> dummy_data[i].name, address |-> dummy_data[i].address,
                     city |-> dummy_data[i].city, index |-> i - 1]]
    IN  [e EXCEPT !.hospitals_df = Some([dtype |-> "object", rows |-> rows]),
                  !.metadata = [i \in DOMAIN rows |->
                                   [name |-> rows[i].name, city |-> rows[i].city,
                                    address |-> rows[i].address, index |-> rows[i].index]],
                  !.vectorizer = Some(DummyVectorizer),
                  !.tfidf_matrix = Some(Len(rows))]

\* the fields the cache holds (the documents go with the metadata)
CacheData(e) ==
    [hospitals_df |-> e.hospitals_df, metadata |-> e.metadata,
     vectorizer |-> e.vectorizer, tfidf_matrix |-> e.tfidf_matrix]

\* use_cache and the file exists and loads
CacheUsable(e, cache) == e.use_cache /\ cache.kind = "saved"

\* the file after the attempt to write it
WriteCache(e, cache, save) ==
    IF ~e.use_cache \/ save = "unwritable" THEN cache
    ELSE IF save = "truncated" THEN Corrupt
    ELSE Saved(CacheData(e))

\* read_csv to the end of the indexing, with the handler around it
BuildIndex(e, cache, file, fit, save) ==
    IF file.kind = "unreadable"
    THEN [engine |-> _create_dummy_data(e), cache_file |-> cache]
    ELSE IF ~HasRequiredColumns(NormaliseColumns(file.columns))
    THEN [engine |-> _create_dummy_data(e), cache_file |-> cache]
    ELSE LET frame == DataFrame(file)
             rows == drop_duplicates(frame.rows)
             built == [e EXCEPT !.hospitals_df = Some([dtype |-> frame.dtype, rows |-> rows]),
                                !.metadata = BuildMetadata(rows),
                                !.vectorizer = Some(Vectorizer),
                                !.tfidf_matrix = Some(Len(rows))]
         IN  IF fit = "raise"
             THEN [engine |-> _create_dummy_data(e), cache_file |-> cache]
             ELSE [engine |-> built, cache_file |-> WriteCache(built, cache, save)]

_load_and_index_data(e, cache, file, fit, save) ==
    IF CacheUsable(e, cache)
    THEN [engine |-> [e EXCEPT !.hospitals_df = cache.data.hospitals_df,
                               !.metadata = cache.data.metadata,
                               !.vectorizer = cache.data.vectorizer,
                               !.tfidf_matrix = cache.data.tfidf_matrix],
          cache_file |-> cache]
    ELSE BuildIndex(e, cache, file, fit, save)

\* HospitalRAG(csv_path, use_cache): the engine and the cache file it leaves
HospitalRAG(csv_path, use_cache, cache, file, fit, save) ==
    _load_and_index_data(NewEngine(csv_path, use_cache), cache, file, fit, save)

\* ---- search_hospitals ----

score_threshold == 10
HighAbove == 50
MediumAbove == 20
ExactScore == 100

Relevance(score) ==
    IF score > HighAbove THEN "high"
    ELSE IF score > MediumAbove THEN "medium" ELSE "low"

\* the similarities cosine_similarity can give n documents
Scores == {5, score_threshold, 60}
Similarities(n) == [1..n -> Scores]

\* np.argsort(similarities)[::-1]: the indices by descending similarity.
\* numpy's default sort is not stable, so the order among equal
\* similarities is any order.
ArgsortDescending(similarities) ==
    {o \in Orderings(DOMAIN similarities) :
        \A i \in 1..(Len(o) - 1) : similarities[o[i]] >= similarities[o[i + 1]]}

\* what the vectorizer and numpy give a query over n documents: the
\* similarities with an order of the indices, or an exception
Scorings(n) ==
    UNION {{Value([similarities |-> s, argsort |-> o]) : o \in ArgsortDescending(s)} :
              s \in Similarities(n)}
    \cup {Raise}

\* the result built from document idx
SemanticResult(e, similarities, idx) ==
    [name |-> e.metadata[idx].name, address |-> e.metadata[idx].address,
     city |-> e.metadata[idx].city, score |-> similarities[idx],
     relevance |-> Relevance(similarities[idx])]

search_hospitals(e, scoring, k) ==
    IF ~e.vectorizer.some \/ ~e.tfidf_matrix.some THEN <<>>
    ELSE IF scoring.kind = "raise" THEN <<>>
    ELSE LET similarities == scoring.value.similarities
             top_indices == FirstN(scoring.value.argsort, k)
             kept == SelectSeq(top_indices, LAMBDA idx :
                         idx <= Len(e.metadata) /\ similarities[idx] >= score_threshold)
         IN  [i \in DOMAIN kept |-> SemanticResult(e, similarities, kept[i])]

\* ---- search_by_name_and_city ----

\* `if city`: neither None nor empty
Truthy(city) == city.some /\ city.value # <<>>

\* the phrase given to search_hospitals
Phrase(name, city) ==
    IF Truthy(city)
    THEN name \o <<" ","h","o","s","p","i","t","a","l"," ","i","n"," ">> \o city.value
    ELSE name \o <<" ","h","o","s","p","i","t","a","l">>

\* the .str accessor raises on a column that does not hold strings
ExactPassRaises(e) == e.hospitals_df.value.dtype # "object"

\* ExactMatches as it would be without the two lower()
ExactMatchesCaseSensitive(e, name, city) ==
    SelectSeq(e.hospitals_df.value.rows, LAMBDA r :
        /\ Contains(r.name, name)
        /\ Truthy(city) => Contains(r.city, city.value))

\* hospitals_df[mask]: the rows whose name contains name, and whose city
\* contains city when one is given, both compared in lower case
ExactMatches(e, name, city) ==
    SelectSeq(e.hospitals_df.value.rows, LAMBDA r :
        /\ Contains(Lower(r.name), Lower(name))
        /\ Truthy(city) => Contains(Lower(r.city), Lower(city.value)))

\* the results of the exact pass
ExactResult(row) ==
    [name |-> row.name, address |-> row.address, city |-> row.city,
     score |-> ExactScore, relevance |-> "high"]

\* AppendNew as it would be without the test on the name
RECURSIVE AppendAll(_, _, _, _)
AppendAll(hs, semantic_results, existing_names, k) ==
    IF semantic_results = <<>> THEN hs
    ELSE LET more == Append(hs, Head(semantic_results))
         IN  IF Len(more) >= k THEN more
             ELSE AppendAll(more, Tail(semantic_results), existing_names, k)

\* the loop over semantic_results: a result is appended unless its name is
\* among existing_names, and the loop breaks at k
RECURSIVE AppendNew(_, _, _, _)
AppendNew(hs, semantic_results, existing_names, k) ==
    IF semantic_results = <<>> THEN hs
    ELSE IF Lower(Head(semantic_results).name) \notin existing_names
    THEN LET more == Append(hs, Head(semantic_results))
         IN  IF Len(more) >= k THEN more
             ELSE AppendNew(more, Tail(semantic_results), existing_names, k)
    ELSE AppendNew(hs, Tail(semantic_results), existing_names, k)

\* ExactPassFailed as it would be if the handler gave up
ExactPassFailedEmpty(e, scoring, k) == <<>>

\* the `except` of search_by_name_and_city
ExactPassFailed(e, scoring, k) == search_hospitals(e, scoring, k)

\* scoring is what the vectorizer gives the phrase Phrase(name, city)
search_by_name_and_city(e, name, city, k, scoring) ==
    IF ~e.hospitals_df.some THEN <<>>
    ELSE IF ExactPassRaises(e) THEN ExactPassFailed(e, scoring, k)
    ELSE LET text_results == ExactMatches(e, name, city)
             head == FirstN(text_results, k)
             hospitals_ == [i \in DOMAIN head |-> ExactResult(head[i])]
             existing_names == {Lower(hospitals_[i].name) : i \in DOMAIN hospitals_}
         IN  IF Len(hospitals_) < k
             THEN FirstN(AppendNew(hospitals_, search_hospitals(e, scoring, k),
                                   existing_names, k), k)
             ELSE FirstN(hospitals_, k)

\* ---- the engine of the agent ----

\* no search made yet
NoCall ==
    [fn |-> "none", name |-> <<>>, city |-> None, k |-> 0, query |-> <<>>,
     scoring |-> Raise]

\* get_rag_engine() where there is neither a dataset nor a cache: the
\* engine holds the demo catalog
DemoEngineInit ==
    /\ files = [p \in Paths |-> Unreadable]
    /\ LET made == HospitalRAG(DefaultPath, TRUE, NoFile, Unreadable, "fitted", "written")
       IN  /\ rag_engine = Some(made.engine)
           /\ cache_file = made.cache_file
    /\ rag_call = NoCall
    /\ rag_result = <<>>

\* no request has reached the server
NoRequests ==
    /\ waiting = {}
    /\ callers = <<>>
    /\ served = <<>>
    /\ overlap = FALSE
    /\ rejections = 0

---------------------------------------------------------------------------
(* Specification of the agent: a conversation through chat() *)

NoIntent == [type |-> "none"]
NoResult == [kind |-> "none"]

AgentInit ==
    /\ session_started = FALSE
    /\ session_state = TRUE
    /\ pc = "idle"
    /\ is_first_message = FALSE
    /\ intro = FALSE
    /\ intent = NoIntent
    /\ hospitals = <<>>
    /\ attempt = 0
    /\ result = NoResult
    /\ searchCalls = <<>>
    /\ genCalls = 0
    /\ recorded = 0
    /\ last_outcome = "none"
    /\ turns = 0

\* a fresh agent with its fresh memory
FreshAgent ==
    /\ history = <<>>
    /\ context = EmptyDict
    /\ max_history = DefaultMaxHistory
    /\ added = <<>>
    /\ user_query = <<>>
    /\ AgentInit

Init ==
    /\ history = <<>>
    /\ context = EmptyDict
    /\ max_history = DefaultMaxHistory
    /\ added = <<>>
    /\ user_query = <<>>
    /\ AgentInit
    /\ DemoEngineInit
    /\ NoRequests

Chat ==
    /\ \E q \in AgentUtterances : ProcessQuery(q)
    /\ UNCHANGED <<ragVars, serverVars>>
Generate ==
    /\ \E out \in GeneratorOutcomes : Attempt(out)
    /\ UNCHANGED <<ragVars, serverVars>>
MemoryCleared ==
    /\ ClearMemory
    /\ UNCHANGED <<ragVars, serverVars>>

Next == Chat \/ Generate \/ MemoryCleared

Spec == Init /\ [][Next]_vars

---------------------------------------------------------------------------
(* Specification of the memory alone: any cap, any sequence of calls *)

\* the caps explored
Caps == {1, 2, DefaultMaxHistory}

\* the turns added: (user text, assistant text, result set)
NoResultsTurn == << <<"i","s"," ","i","t">>, Fallback(<<>>), <<>> >>
TwoCitiesTurn == << <<"f","i","n","d">>, ShortAnswer, <<Apollo, Fortis>> >>
OneCityTurn == << <<"m","o","r","e">>, LongAnswer, <<Manipal>> >>

\* With the default cap the history is filled from two kinds of turn, with
\* a smaller cap from all three.
MemoryTurns(cap) ==
    IF cap = DefaultMaxHistory
    THEN {NoResultsTurn, TwoCitiesTurn}
    ELSE {NoResultsTurn, TwoCitiesTurn, OneCityTurn}

MemoryInit ==
    /\ history = <<>>
    /\ context = EmptyDict
    /\ max_history \in Caps
    /\ added = <<>>
    /\ user_query = <<>>
    /\ AgentInit
    /\ DemoEngineInit
    /\ NoRequests

AddInteraction ==
    /\ Len(added) < max_history + MaxOverflow
    /\ \E t \in MemoryTurns(max_history) : add_interaction(t[1], t[2], t[3])
    /\ UNCHANGED <<agentVars, ragVars, serverVars>>

Clear ==
    /\ clear
    /\ UNCHANGED <<agentVars, ragVars, serverVars>>

MemoryNext == AddInteraction \/ Clear

MemorySpec == MemoryInit /\ [][MemoryNext]_vars

---------------------------------------------------------------------------
(* Specification of intent extraction: a pure function of the utterance *)

\* the words utterances are composed of
Vocabulary ==
    << <<"i","s">>, <<"m","o","r","e">>, <<"l","i","s","t">>, <<"v","e","r","i","f","y">>, <<"o","t","h","e","r">>, <<"s","h","o","w">>,
       <<"f","i","v","e">>, <<"5">>, <<"\\","b","f","i","v","e","\\","b">>, <<"M","a","n","i","p","a","l">>, <<"D","e","l","h","i">>, <<"h","o","s","p","i","t","a","l","s">> >>

\* ' '.join(words)
RECURSIVE Join(_)
Join(words) ==
    IF words = <<>> THEN <<>>
    ELSE IF Len(words) = 1 THEN words[1]
    ELSE words[1] \o <<" ">> \o Join(Tail(words))

Composed ==
    UNION {{Join(ws) : ws \in [1..n -> Range(Vocabulary)]} : n \in 0..MaxWords}

ExampleUtterances ==
    { <<"i","s"," ","M","a","n","i","p","a","l"," ","B","a","n","g","a","l","o","r","e"," ","i","n"," ","n","e","t","w","o","r","k">>, <<"s","h","o","w"," ","m","e"," ","f","i","v","e"," ","h","o","s","p","i","t","a","l","s"," ","i","n"," ","D","e","l","h","i">> }

Utterances == Composed \cup ExampleUtterances

\* a fresh agent and the utterance it is about to be given
IntentInit ==
    /\ history = <<>>
    /\ context = EmptyDict
    /\ max_history = DefaultMaxHistory
    /\ added = <<>>
    /\ user_query \in Utterances
    /\ AgentInit
    /\ DemoEngineInit
    /\ NoRequests

\* the call _extract_intent(user_query)
ExtractIntent ==
    /\ intent = NoIntent
    /\ intent' = _extract_intent(user_query, context)
    /\ UNCHANGED <<memVars, session_started, session_state, pc, user_query,
                   is_first_message, intro, hospitals, attempt, result, searchCalls,
                   genCalls, recorded, last_outcome, turns, ragVars, serverVars>>

IntentNext == ExtractIntent

IntentSpec == IntentInit /\ [][IntentNext]_vars

---------------------------------------------------------------------------
(* Specification of the loading of the engine: processes started one after *)
(* the other over the same cache directory                                 *)

LoadInit ==
    /\ FreshAgent
    /\ \E d \in Datasets :
          files = [p \in Paths |-> IF p = DefaultPath THEN d ELSE OtherDataset]
    /\ cache_file \in {NoFile, Corrupt}
    /\ rag_engine = None
    /\ rag_call = NoCall
    /\ rag_result = <<>>
    /\ NoRequests

\* a process constructs HospitalRAG(path, use_cache)
Construct ==
    /\ \E path \in Paths, use_cache \in BOOLEAN, fit \in FitOutcomes, save \in SaveOutcomes :
          LET made == HospitalRAG(path, use_cache, cache_file, files[path], fit, save)
          IN  /\ rag_engine' = Some(made.engine)
              /\ cache_file' = made.cache_file
    /\ UNCHANGED <<files, rag_call, rag_result, memVars, user_query, agentVars, serverVars>>

LoadNext == Construct

LoadSpec == LoadInit /\ [][LoadNext]_vars

---------------------------------------------------------------------------
(* Specification of the searches: the engine get_rag_engine() builds on a  *)
(* first start, then one search, which leaves the engine as it was         *)

\* the arguments of the searches
Ks == 1..MaxK
NameArgs == { <<"A","p","o","l","l","o">>, <<"f","o","r","t","i","s">> }
CityArgs == { None, Some(<<"B","a","n","g","a","l","o","r","e">>) }
QueryArgs == { <<"h","o","s","p","i","t","a","l","s"," ","i","n"," ","D","e","l","h","i">> }

SearchInit ==
    /\ FreshAgent
    /\ \E d \in Datasets :
          /\ files = [p \in Paths |-> IF p = DefaultPath THEN d ELSE OtherDataset]
          /\ LET made == HospitalRAG(DefaultPath, TRUE, NoFile, d, "fitted", "written")
             IN  /\ rag_engine = Some(made.engine)
                 /\ cache_file = made.cache_file
    /\ rag_call = NoCall
    /\ rag_result = <<>>
    /\ NoRequests

SearchHospitals ==
    /\ rag_call = NoCall
    /\ \E query \in QueryArgs, k \in Ks, scoring \in Scorings(Len(rag_engine.value.metadata)) :
          /\ rag_call' = [fn |-> "search_hospitals", name |-> <<>>, city |-> None,
                          k |-> k, query |-> query, scoring |-> scoring]
          /\ rag_result' = search_hospitals(rag_engine.value, scoring, k)
    /\ UNCHANGED <<files, cache_file, rag_engine, memVars, user_query, agentVars,
                   serverVars>>

SearchByNameAndCity ==
    /\ rag_call = NoCall
    /\ \E name \in NameArgs, city \in CityArgs, k \in Ks,
          scoring \in Scorings(Len(rag_engine.value.metadata)) :
          /\ rag_call' = [fn |-> "search_by_name_and_city", name |-> name, city |-> city,
                          k |-> k, query |-> Phrase(name, city), scoring |-> scoring]
          /\ rag_result' = search_by_name_and_city(rag_engine.value, name, city, k, scoring)
    /\ UNCHANGED <<files, cache_file, rag_engine, memVars, user_query, agentVars,
                   serverVars>>

SearchNext == SearchHospitals \/ SearchByNameAndCity

SearchSpec == SearchInit /\ [][SearchNext]_vars

---------------------------------------------------------------------------
(* Conversation Memory: properties checked under MemorySpec *)

\* the turns added since creation or the last clear() that had results
WithResults == {i \in 1..Len(added) : added[i].hospitals # <<>>}

\* the distinct cities of a result set
CitiesOf(hs) == {hs[i].city : i \in 1..Len(hs)}

\* C1: for every cap N >= 1 the history holds exactly the most recent
\* min(n, N) of the n turns added since creation or the last clear(), in
\* the order in which they were added.
C1_HistoryIsMostRecent ==
    LET n == Len(added)
        kept == IF n < max_history THEN n ELSE max_history
    IN  /\ max_history >= 1
        /\ Len(history) = kept
        /\ \A i \in 1..kept : history[i] = added[n - kept + i]

\* C1 witness: 11 turns added with the cap of 10; the oldest one, which
\* differs from its successor, is the one that is gone.
C1_Witness ==
    /\ max_history = 10
    /\ Len(added) = 11
    /\ Len(history) = 10
    /\ added[1] # added[2]
    /\ history[1] = added[2]
    /\ history[10] = added[11]

\* C2: lastCities is exactly the set of distinct cities of the most
\* recently added turn with a non-empty result set, get_last_city() gives
\* an element of it, and without such a turn since creation or the last
\* clear() there is no lastCities and get_last_city() gives nothing.
C2_LastCitiesOfLatestResults ==
    IF WithResults = {}
    THEN /\ "last_cities" \notin DOMAIN context
         /\ get_last_city(context) = None
    ELSE LET latest == CHOOSE i \in WithResults : \A j \in WithResults : j <= i
             wanted == CitiesOf(added[latest].hospitals)
         IN  /\ "last_cities" \in DOMAIN context
             /\ Range(context["last_cities"]) = wanted
             /\ Len(context["last_cities"]) = Cardinality(wanted)
             /\ get_last_city(context).some
             /\ get_last_city(context).value \in wanted

\* C2 witness: a turn with results in two cities, then one with results in
\* one city, then one without results: the context names that one city.
C2_Witness ==
    /\ Len(added) = 3
    /\ CitiesOf(added[1].hospitals) = {Apollo.city, Fortis.city}
    /\ CitiesOf(added[2].hospitals) = {Manipal.city}
    /\ added[3].hospitals = <<>>
    /\ context["last_cities"] = <<Manipal.city>>
    /\ get_last_city(context) = Some(Manipal.city)

---------------------------------------------------------------------------
(* Turn Orchestrator: properties checked under Spec *)

\* the turn the call in flight / last call has to record for an answer
TurnOf(answer) == [user |-> user_query, assistant |-> answer, hospitals |-> hospitals]

\* the last call has returned
Returned == turns > 0 /\ pc = "idle"

\* the utterances that, trimmed and lower-cased, are one of the greeting words
BareGreetings ==
    {q \in AgentUtterances :
        Lower(Strip(q)) \in { <<"h","i">>, <<"h","e","l","l","o">>, <<"h","e","y">>, <<"s","t","a","r","t">>, <<"h","e","l","p">> }}

\* the utterances that contain an allowlist keyword
HealthcareUtterances ==
    {q \in AgentUtterances :
        LET text == Lower(q) IN \E n \in 1..Len(keywords) : Contains(text, keywords[n])}

\* the last call took the first-turn branch with a bare greeting
BareGreetingOnFirstTurn == intro /\ user_query \in BareGreetings

\* the utterance of the last call contains an allowlist keyword
HasHealthcareKeyword == user_query \in HealthcareUtterances

\* C3: within one call the generator is invoked at most 3 times and not
\* again once an attempt was accepted; an accepted answer is longer than 20
\* and shorter than 500 characters (after trimming) and does not begin
\* with the apology phrase; on acceptance exactly one turn (utterance,
\* accepted answer, result set) is recorded and the answer returned.
C3_AttemptsAndAcceptance ==
    /\ [](genCalls <= 3)
    /\ [](pc = "generating" => (recorded = 0 /\ last_outcome # "accepted"))
    /\ [][genCalls' = genCalls + 1 =>
            /\ genCalls < 3
            /\ last_outcome # "accepted"
            /\ recorded = 0
            /\ last_outcome' = "accepted" =>
                  /\ pc' = "idle"
                  /\ recorded' = 1
                  /\ result'.kind = "value"
                  /\ result'.value.intro = intro
                  /\ result'.value.body.kind = "generated"
                  /\ 20 < result'.value.body.len
                  /\ result'.value.body.len < 500
                  /\ ~result'.value.body.apology
                  /\ added' = Append(added, TurnOf(result'.value.body))
                  /\ history'[Len(history')] = TurnOf(result'.value.body)
            /\ last_outcome' # "accepted" =>
                  \/ pc' = "generating" /\ recorded' = 0 /\ added' = added
                  \/ genCalls' = 3
         ]_vars

\* C3 witness: the third attempt of a call was accepted.
C3_Witness ==
    /\ Returned
    /\ genCalls = 3
    /\ last_outcome = "accepted"
    /\ recorded = 1
    /\ result.value.body.len = 21
    /\ added # <<>>
    /\ added[Len(added)] = TurnOf(result.value.body)

\* all 3 attempts of the last call failed
AllAttemptsFailed ==
    Returned /\ genCalls = 3 /\ last_outcome \in {"rejected", "raised"}

C5_AlwaysReturnsValue ==
    /\ result.kind # "raise"
    /\ Returned => (result.kind = "value" /\ result.value.intro \in BOOLEAN)
    /\ pc = "generating" => (attempt = genCalls + 1 /\ attempt <= 3 /\ ENABLED Generate)

\* C5 witness: the search raised and the call returned the error message.
C5_Witness ==
    /\ Returned
    /\ searchCalls # <<>>
    /\ genCalls = 0
    /\ result = Value(error_message)

\* C6: a call whose utterance is not a first-turn bare greeting and has no
\* healthcare keyword returns the refusal without any search and without
\* any generator call.
C6_RefusalWithoutSearch ==
    (turns > 0 /\ ~BareGreetingOnFirstTurn /\ ~HasHealthcareKeyword) =>
        /\ pc = "idle"
        /\ result = Value(refusal_message)
        /\ searchCalls = <<>>
        /\ genCalls = 0
        /\ recorded = 0

\* C6 witness: a refusal on a later turn.
C6_Witness ==
    /\ Returned
    /\ turns = 2
    /\ ~is_first_message
    /\ user_query = <<"w","h","a","t","'","s"," ","t","h","e"," ","w","e","a","t","h","e","r">>
    /\ result = Value(refusal_message)

\* the utterance of the last call, trimmed and lower-cased, is a greeting
IsBareGreeting == user_query \in BareGreetings

\* C7: a bare greeting on the first turn returns the welcome message
\* without search or generator call; on a later turn (isFirstTurn false,
\* session started) the same utterance does not get the welcome message.
C7_WelcomeOnFirstTurnOnly ==
    (turns > 0 /\ IsBareGreeting) =>
        /\ turns = 1 =>
              /\ is_first_message
              /\ pc = "idle"
              /\ result = Value(greeting_message)
              /\ searchCalls = <<>>
              /\ genCalls = 0
        /\ (turns > 1 /\ ~is_first_message /\ session_started) =>
              (pc = "idle" => result # Value(greeting_message))
        /\ turns > 1 => (~is_first_message /\ session_started)

\* C7 witness: the greeting, given again on the second turn, is refused.
C7_Witness ==
    /\ Returned
    /\ turns = 2
    /\ IsBareGreeting
    /\ ~is_first_message
    /\ result = Value(refusal_message)

\* C8: a call that reaches retrieval issues exactly one search:
\* search_by_name_and_city(hospitalName, city, k = count) when the intent
\* is a confirmation with a known hospital name, search_hospitals(utterance,
\* k = count) otherwise; a call that does not reach retrieval issues none.
C8_OneSearchByIntent ==
    turns > 0 =>
        IF ~BareGreetingOnFirstTurn /\ HasHealthcareKeyword
        THEN /\ Len(searchCalls) = 1
             /\ searchCalls[1].k = intent.count
             /\ IF intent.type = "confirmation" /\ intent.hospital_name # None
                THEN /\ searchCalls[1].fn = "search_by_name_and_city"
                     /\ searchCalls[1].name = intent.hospital_name.value
                     /\ searchCalls[1].city = intent.city
                ELSE /\ searchCalls[1].fn = "search_hospitals"
                     /\ searchCalls[1].query = user_query
        ELSE searchCalls = <<>>

\* C8 witness: a confirmation naming a hospital and a city.
C8_Witness ==
    /\ turns > 0
    /\ searchCalls = <<[fn |-> "search_by_name_and_city", name |-> <<"a","p","o","l","l","o">>,
                        city |-> Some(<<"D","e","l","h","i">>), k |-> 3]>>

---------------------------------------------------------------------------
(* Intent Extractor: properties checked under IntentSpec *)

\* the lower-cased utterance contains one of the given words
Mentions(words) ==
    LET text == Lower(user_query) IN \E w \in words : Contains(text, w)

\* C9: classification is first match wins over substring tests: an
\* utterance containing confirm, is, check or verify is a confirmation even
\* if it also contains more, other or additional; otherwise one containing
\* more, other or additional is a followup; otherwise it is a search. "is
\* Manipal Bangalore in network" gives confirmation, "manipal",
\* "Bangalore", 3.
C9_FirstMatchWins ==
    intent # NoIntent =>
        /\ intent.type =
             IF Mentions({ <<"c","o","n","f","i","r","m">>, <<"i","s">>, <<"c","h","e","c","k">>, <<"v","e","r","i","f","y">> })
             THEN "confirmation"
             ELSE IF Mentions({ <<"m","o","r","e">>, <<"o","t","h","e","r">>, <<"a","d","d","i","t","i","o","n","a","l">> })
             THEN "followup"
             ELSE "search"
        /\ user_query = <<"i","s"," ","M","a","n","i","p","a","l"," ","B","a","n","g","a","l","o","r","e"," ","i","n"," ","n","e","t","w","o","r","k">> =>
             intent = [type |-> "confirmation", city |-> Some(<<"B","a","n","g","a","l","o","r","e">>),
                       hospital_name |-> Some(<<"m","a","n","i","p","a","l">>), count |-> 3]

\* C9 witness: an utterance with a confirmation word and a followup word
\* was classified as a confirmation.
C9_Witness ==
    /\ intent # NoIntent
    /\ Mentions({ <<"i","s">> })
    /\ Mentions({ <<"m","o","r","e">> })
    /\ intent.type = "confirmation"

\* a character of a word: a letter, a digit or the underscore
WordChar(c) == c \in Range(LowerChars) \cup Range(UpperChars) \cup Range(Digits) \cup {"_"}

\* the words of a text: the maximal runs of word characters, as <<first, last>>
WordsOf(text) ==
    {p \in (1..Len(text)) \X (1..Len(text)) :
        /\ p[1] <= p[2]
        /\ \A i \in p[1]..p[2] : WordChar(text[i])
        /\ p[1] = 1 \/ ~WordChar(text[p[1] - 1])
        /\ p[2] = Len(text) \/ ~WordChar(text[p[2] + 1])}

\* the count the utterance asks for: the number given by its first digit
\* sequence or number word, 3 when it has none
RequestedCount(text) ==
    LET numbers == {p \in WordsOf(text) :
                       \/ IsDigit(SubSeq(text, p[1], p[2]))
                       \/ SubSeq(text, p[1], p[2]) \in { <<"t","h","r","e","e">>, <<"f","i","v","e">>, <<"t","e","n">> }}
    IN  IF numbers = {} THEN 3
        ELSE LET p == CHOOSE x \in numbers : \A y \in numbers : x[1] <= y[1]
                 word == SubSeq(text, p[1], p[2])
             IN  IF word = <<"t","h","r","e","e">> THEN 3
                 ELSE IF word = <<"f","i","v","e">> THEN 5
                 ELSE IF word = <<"t","e","n">> THEN 10
                 ELSE ParseInt(word)

\* C10: the count is the number given by the first digit sequence or
\* number word (three, five, ten) of the utterance and 3 when there is
\* none; "show me five hospitals in Delhi" gives search, "Delhi", 5.
C10_CountFromUtterance ==
    intent # NoIntent =>
        /\ intent.count = RequestedCount(Lower(user_query))
        /\ user_query = <<"s","h","o","w"," ","m","e"," ","f","i","v","e"," ","h","o","s","p","i","t","a","l","s"," ","i","n"," ","D","e","l","h","i">> =>
             /\ intent.type = "search"
             /\ intent.city = Some(<<"D","e","l","h","i">>)
             /\ intent.count = 5

---------------------------------------------------------------------------
(* Specification of the server of main.py: one agent and one session_state *)
(* for the requests of every conversation.  chat() is a coroutine: it      *)
(* awaits the body of its request, and then runs process_query to its end  *)
(* without another await, so that no other request is handled meanwhile.   *)

\* the conversations (clients) talking to the server
Conversations == {"A", "B"}

\* what the conversations say
ServerUtterances == { <<" ","H","i"," ">>, <<"f","i","n","d"," ","m","o","r","e">> }

\* what ollama.chat gives: an acceptable answer, one too short, an exception
ServerGeneratorOutcomes ==
    {Value([lead |-> 0, trail |-> 0, body |-> ShortAnswer]),
     Value([lead |-> 0, trail |-> 0,
            body |-> [kind |-> "generated", len |-> MinAnswerLen, apology |-> FALSE]]),
     Raise}

ServerInit ==
    /\ FreshAgent
    /\ DemoEngineInit
    /\ NoRequests

\* the conversation whose request is being handled, or was handled last
Caller == IF callers = <<>> THEN "nobody" ELSE callers[Len(callers)]

\* a conversation sends a request; chat() gets to the await of its body
Arrive ==
    /\ \E c \in Conversations :
          /\ c \notin waiting
          /\ (pc # "idle") => (Caller # c)
          /\ Len(callers) + Cardinality(waiting) < MaxTurns
          /\ waiting' = waiting \cup {c}
    /\ UNCHANGED <<memVars, user_query, agentVars, ragVars, callers, served, overlap,
                   rejections>>

\* the body of a request is there and the event loop is free: chat() calls
\* agent.process_query with the global session_state
Handle ==
    /\ \E c \in waiting, q \in ServerUtterances :
          /\ ProcessQuery(q)
          /\ waiting' = waiting \ {c}
          /\ callers' = Append(callers, c)
    /\ rejections' = 0
    /\ UNCHANGED <<ragVars, served, overlap>>

\* a generation attempt of the call in flight; `served` takes the turn the
\* call gives to add_interaction, `rejections` counts the rejected attempts
Respond ==
    /\ \E out \in ServerGeneratorOutcomes : Attempt(out)
    /\ served' = IF recorded' > recorded
                 THEN Append(served, [conversation |-> Caller,
                                      turn |-> [user |-> user_query,
                                                assistant |-> result'.value.body,
                                                hospitals |-> hospitals]])
                 ELSE served
    /\ overlap' = (overlap \/ (recorded' > recorded /\ waiting # {}))
    /\ rejections' = IF last_outcome' = "rejected" THEN rejections + 1 ELSE rejections
    /\ UNCHANGED <<ragVars, waiting, callers>>

ServerNext == Arrive \/ Handle \/ Respond

ServerSpec == ServerInit /\ [][ServerNext]_vars

---------------------------------------------------------------------------
(* Claims about the engine and its searches *)

\* the engine the searches run on
TheEngine == rag_engine.value

\* a search_by_name_and_city call whose exact pass ran to its end
ByNameCompleted ==
    /\ rag_call.fn = "search_by_name_and_city"
    /\ ~ExactPassRaises(TheEngine)

\* needle occurs in hay when the case of the letters is ignored
ContainsIgnoringCase(hay, needle) ==
    \E i \in 1..(Len(hay) - Len(needle) + 1) :
        \A j \in 1..Len(needle) : LowerChar(hay[i + j - 1]) = LowerChar(needle[j])

\* the records the call asks for, in catalog order
Wanted ==
    SelectSeq(TheEngine.hospitals_df.value.rows, LAMBDA r :
        /\ ContainsIgnoringCase(r.name, rag_call.name)
        /\ rag_call.city.some => ContainsIgnoringCase(r.city, rag_call.city.value))

\* what the Text Index gives the call
TextIndexResults == search_hospitals(TheEngine, rag_call.scoring, rag_call.k)

TextSearchCompleted ==
    /\ rag_call.fn = "search_hospitals"
    /\ rag_call.scoring.kind = "value"

\* C12: search_hospitals(q, k) returns at most k results, every result has
\* a score of at least the threshold, the scores do not increase along the
\* result, and results of equal score are in catalog order, the lower
\* catalog index first.
C12_TopKSortedStable ==
    TextSearchCompleted =>
        LET similarities == rag_call.scoring.value.similarities
            n == Len(rag_result)
        IN  /\ n <= rag_call.k
            /\ \A i \in 1..n : rag_result[i].score >= score_threshold
            /\ \A i \in 1..(n - 1) : rag_result[i].score >= rag_result[i + 1].score
            /\ \E idx \in [1..n -> DOMAIN similarities] :
                  /\ \A i \in 1..n :
                        rag_result[i] = SemanticResult(TheEngine, similarities, idx[i])
                  /\ \A i, j \in 1..n :
                        i < j => /\ idx[i] # idx[j]
                                 /\ rag_result[i].score = rag_result[j].score
                                      => idx[i] < idx[j]


\* C13: after loading any catalog no two records of the indexed catalog
\* (the metadata the searches return) have the same (name, city); two rows
\* of the file with the same (name, city) are one record.
C13_NameCityUnique ==
    rag_engine.some =>
        \A i, j \in DOMAIN TheEngine.metadata :
            i # j => ~(/\ TheEngine.metadata[i].name = TheEngine.metadata[j].name
                       /\ TheEngine.metadata[i].city = TheEngine.metadata[j].city)


\* the three records of the demo catalog
DemoCatalog ==
    << [name |-> <<"A","p","o","l","l","o"," ","H","o","s","p","i","t","a","l">>, city |-> <<"B","a","n","g","a","l","o","r","e">>,
        address |-> <<"1","2","3"," ","M","a","i","n"," ","S","t">>, index |-> 0],
       [name |-> <<"M","a","n","i","p","a","l"," ","H","o","s","p","i","t","a","l">>, city |-> <<"B","a","n","g","a","l","o","r","e">>,
        address |-> <<"4","5","6"," ","P","a","r","k"," ","A","v","e">>, index |-> 1],
       [name |-> <<"F","o","r","t","i","s"," ","H","o","s","p","i","t","a","l">>, city |-> <<"D","e","l","h","i">>,
        address |-> <<"7","8","9"," ","L","a","k","e"," ","R","d">>, index |-> 2] >>

\* the dataset cannot be read or has no column named 'hospital name',
\* 'address' or 'city' once its header is stripped and lower-cased
UnusableDataset(file) ==
    \/ file.kind = "unreadable"
    \/ \E col \in Range(required_columns) :
          \A i \in DOMAIN file.columns : Lower(Strip(file.columns[i])) # col

\* the engine holds exactly the demo catalog, with an index over it
HoldsDemoCatalog(e) ==
    /\ e.metadata = DemoCatalog
    /\ e.hospitals_df.some
    /\ e.hospitals_df.value.rows = DemoCatalog
    /\ e.vectorizer.some
    /\ e.tfidf_matrix = Some(Len(DemoCatalog))

\* C14: when an engine is constructed while no usable cache is loaded (the
\* cache is not asked for, or there is no file, or the file does not load)
\* and its dataset is unreadable or lacks a required column, the
\* construction gives an engine, and the engine holds exactly the 3-record
\* demo catalog with an index over it.
C14_DemoCatalogOnBadDataset ==
    [][ (/\ rag_engine' # rag_engine
         /\ rag_engine'.some
         /\ ~(rag_engine'.value.use_cache /\ cache_file.kind = "saved")
         /\ UnusableDataset(files[rag_engine'.value.csv_path]))
        => HoldsDemoCatalog(rag_engine'.value) ]_vars

\* an engine constructed with the cache asked for, over a file that does
\* not load as a cache and a dataset without the required columns
C14_Witness ==
    /\ rag_engine.some
    /\ TheEngine.csv_path = DefaultPath
    /\ TheEngine.use_cache
    /\ files[DefaultPath] = MissingColumns
    /\ cache_file = Corrupt
    /\ HoldsDemoCatalog(TheEngine)

---------------------------------------------------------------------------
(* Claims about the server: conversations and requests in flight *)

\* the conversation the turn history[i] came from
SpeakerOf(i) == served[Len(served) - Len(history) + i].conversation

\* the calls process_query has had from conversation c
CallsOf(c) == {i \in DOMAIN callers : callers[i] = c}

\* C15: conversations are independent: the history and the derived context
\* a conversation's call works with come from that conversation's turns
\* alone, and a conversation starts in INIT whatever the others did: its
\* first call is served as a first turn.
C15_ConversationsIndependent ==
    callers # <<>> =>
        /\ \A i \in DOMAIN history : SpeakerOf(i) = Caller
        /\ context # EmptyDict => served[Len(served)].conversation = Caller
        /\ Cardinality(CallsOf(Caller)) = 1 => intro


\* the turns given to add_interaction, in the order of the calls
TurnsServed == [i \in DOMAIN served |-> served[i].turn]

\* the history a memory has after the calls add_interaction(t), t in ts,
\* made one after the other on the history h
RECURSIVE SerialHistory(_, _)
SerialHistory(ts, h) ==
    IF ts = <<>> THEN h
    ELSE SerialHistory(Tail(ts), Evict(Append(h, Head(ts)), max_history))

\* the contexts a memory can have after the same calls on the context ctx
RECURSIVE SerialContexts(_, _)
SerialContexts(ts, ctx) ==
    IF ts = <<>> THEN {ctx}
    ELSE UNION {SerialContexts(Tail(ts),
                    UpdateIntent(UpdateCities(ctx, Head(ts).hospitals, order), Head(ts).user)) :
                  order \in CityOrders(Head(ts).hospitals)}

AllAttemptsRejected == Returned /\ genCalls = 3 /\ rejections = 3

\* C17: if all 3 generation attempts of a turn are rejected by the quality
\* check, the sentence returned is determined by the result set: with
\* results it enumerates the names of up to the first 3 of them, each
\* together with its city, and without results it states that none were
\* found.
C17_FallbackNamesWithCities ==
    AllAttemptsRejected =>
        LET sentence == result.value.body
        IN  /\ result.kind = "value"
            /\ sentence = Fallback(hospitals)
            /\ IF hospitals = <<>>
               THEN sentence.kind = "notfound"
               ELSE /\ sentence.kind = "fallback"
                    /\ Len(sentence.names) = Len(FirstN(hospitals, 3))
                    /\ \A i \in DOMAIN sentence.names :
                          /\ Contains(sentence.names[i], hospitals[i].name)
                          /\ Contains(sentence.names[i], hospitals[i].city)


\* the same text when the case of the letters is ignored
SameIgnoringCase(a, b) ==
    /\ Len(a) = Len(b)
    /\ \A i \in 1..Len(a) : LowerChar(a[i]) = LowerChar(b[i])

\* the number of records the exact pass of the call gives
ExactCount == IF Len(Wanted) <= rag_call.k THEN Len(Wanted) ELSE rag_call.k

\* the Text Index results whose name is not the name of a record of the
\* exact pass
Eligible ==
    SelectSeq(TextIndexResults, LAMBDA r :
        \A j \in 1..ExactCount : ~SameIgnoringCase(r.name, Wanted[j].name))

\* C18: search_by_name_and_city(name, city, k) never returns more than k
\* entries and is never padded; when the exact pass finds fewer than k, the
\* Text Index results for the phrase are appended, in their order, only if
\* their name (case ignored) is not the name of a record of the exact pass,
\* until there are k entries or no candidate is left.
C18_AtMostKNoPadding ==
    rag_call.fn = "search_by_name_and_city" =>
        /\ Len(rag_result) <= rag_call.k
        /\ ByNameCompleted =>
              LET room == rag_call.k - ExactCount
                  appended == IF Len(Eligible) <= room THEN Len(Eligible) ELSE room
              IN  /\ Len(rag_result) = ExactCount + appended
                  /\ \A j \in 1..appended : rag_result[ExactCount + j] = Eligible[j]

\* the exact pass found one record where two were asked for; the first Text
\* Index result had that record's name and was left out, the second one was
\* appended
C18_Witness ==
    /\ ByNameCompleted
    /\ rag_call.k = 2
    /\ ExactCount = 1
    /\ Len(TextIndexResults) = 2
    /\ SameIgnoringCase(TextIndexResults[1].name, Wanted[1].name)
    /\ Len(rag_result) = 2
    /\ rag_result[2] = TextIndexResults[2]


\* a search_by_name_and_city call whose exact pass raised: the name column
\* of the frame holds numbers, which have no .str accessor
ByNameRaised ==
    /\ rag_call.fn = "search_by_name_and_city"
    /\ TheEngine.hospitals_df.some
    /\ TheEngine.hospitals_df.value.dtype = "int64"

\* C19: if the exact pass of search_by_name_and_city raises, the call
\* returns a list all the same: exactly what search_hospitals gives, with
\* the same k, for the phrase "{name} hospital in {city}", or
\* "{name} hospital" when there is no city; the list may be empty.
C19_FallbackWhenExactPassRaises ==
    ByNameRaised =>
        /\ rag_call.query = IF rag_call.city.some
                            THEN rag_call.name \o <<" ","h","o","s","p","i","t","a","l"," ","i","n"," ">> \o rag_call.city.value
                            ELSE rag_call.name \o <<" ","h","o","s","p","i","t","a","l">>
        /\ rag_result = search_hospitals(TheEngine, rag_call.scoring, rag_call.k)
        /\ Len(rag_result) <= rag_call.k

\* the exact pass raised and the call returned the two results the Text
\* Index had for the phrase
C19_Witness ==
    /\ ByNameRaised
    /\ rag_call.city = None
    /\ rag_call.scoring.kind = "value"
    /\ Len(rag_result) = 2
    /\ rag_result[1].score >= rag_result[2].score
    /\ rag_result[1].name \in { <<"1","0","1">>, <<"1","0","2">> }


\* record m of an engine comes from a row of the dataset
FromRow(m, row) ==
    /\ m.name = Strip(row[1])
    /\ m.address = Strip(row[2])
    /\ m.city = Strip(row[3])

\* the records of the engine come from the dataset at the engine's path,
\* or are the demo catalog
RecordsOfOwnDataset(e) ==
    \/ HoldsDemoCatalog(e)
    \/ /\ files[e.csv_path].kind = "table"
       /\ \A i \in DOMAIN e.metadata :
             \E r \in DOMAIN files[e.csv_path].rows :
                 FromRow(e.metadata[i], files[e.csv_path].rows[r])

\* C20: the persisted index is keyed by the dataset: an engine constructed
\* for a path never holds the records or the index of the dataset at
\* another path, whatever was built and cached before; the cache is reused
\* only for the dataset it was built from.
C20_CacheKeyedByDataset ==
    rag_engine.some => RecordsOfOwnDataset(TheEngine)

---------------------------------------------------------------------------
(* Intent extraction against the memory: properties checked under Spec *)

\* the call that starts in this step extracts an intent (it is neither
\* answered with the welcome message nor refused)
ExtractsIntent == turns' = turns + 1 /\ searchCalls' # <<>>

\* the utterance names none of the known cities
NamesNoCity(q) == \A n \in 1..Len(cities) : ~Contains(Lower(q), cities[n])

\* the cities of the most recent turn with results since creation or the
\* last clear()
LatestCities ==
    IF WithResults = {} THEN {}
    ELSE CitiesOf(added[CHOOSE i \in WithResults : \A j \in WithResults : j <= i].hospitals)

\* C21: when the utterance of a call names no city, the city of a followup
\* intent is what get_last_city() gives when the intent is extracted (a
\* city of the most recent turn with results, nothing without such a
\* turn), and the city of a search or confirmation intent is unset
\* whatever the memory holds.
C21_FollowupCityFromMemory ==
    [][ (ExtractsIntent /\ NamesNoCity(user_query'))
        => IF intent'.type = "followup"
           THEN /\ intent'.city = get_last_city(context)
                /\ IF LatestCities = {}
                   THEN intent'.city = None
                   ELSE intent'.city.some /\ intent'.city.value \in LatestCities
           ELSE /\ intent'.type \in {"search", "confirmation"}
                /\ intent'.city = None ]_vars

\* a followup without a city, asked after a turn with results: the intent
\* carries the city of that turn
C21_Witness ==
    /\ pc = "generating"
    /\ user_query = <<"f","i","n","d"," ","m","o","r","e">>
    /\ intent.type = "followup"
    /\ WithResults # {}
    /\ intent.city.some
    /\ intent.city.value \in LatestCities
    /\ intent.city = get_last_city(context)

\* C22: once a turn has been added, the memory's last_intent is the type
\* the classification of _extract_intent gives to the text of the turn
\* added last: confirmation, else followup, else search.
C22_LastIntentAsExtractor ==
    added # <<>> =>
        /\ "last_intent" \in DOMAIN context
        /\ context["last_intent"] = IntentType(Lower(added[Len(added)].user))

---------------------------------------------------------------------------
(* First turn and clear(): properties checked under Spec *)

\* INIT: the next call of process_query takes the first-turn branch
\* (chat() passes session_state["is_first_message"])
InInit == FirstTurn(session_state, session_started)

\* the last call recorded its turn and the memory holds no turn: clear()
\* has been called since that call returned
ClearedSinceLastTurn == pc = "idle" /\ recorded = 1 /\ added = <<>>

\* C23: the conversation is back in INIT exactly through clear(): no step
\* other than clear() brings it from GREETED to INIT, a clear() leaves it
\* in INIT, and a bare greeting that follows a clear() is answered with
\* the welcome message.
C23_ResetExactlyOnClear ==
    [][ /\ (~MemoryCleared /\ ~InInit) => ~InInit'
        /\ MemoryCleared => InInit'
        /\ (ClearedSinceLastTurn /\ turns' = turns + 1 /\ user_query' \in BareGreetings)
             => (intro' /\ result' = Value(greeting_message)) ]_vars

---------------------------------------------------------------------------
(* Failure of the vectorization: property checked under LoadSpec *)

\* the engine has no index and no records
EmptyIndex(e) ==
    /\ e.metadata = <<>>
    /\ ~e.vectorizer.some \/ ~e.tfidf_matrix.some

\* every search_hospitals and search_by_name_and_city on e gives nothing
EverySearchEmpty(e) ==
    \A k \in Ks, scoring \in Scorings(Len(e.metadata)) :
        /\ search_hospitals(e, scoring, k) = <<>>
        /\ \A name \in NameArgs, city \in CityArgs :
              search_by_name_and_city(e, name, city, k, scoring) = <<>>

\* the step constructs an engine whose loading gets as far as fit_transform
\* (no cache is loaded, the dataset is read and has its columns) and in
\* which fit_transform raises
VectorizationFails ==
    \E path \in Paths, use_cache \in BOOLEAN, save \in SaveOutcomes :
        /\ ~(use_cache /\ cache_file.kind = "saved")
        /\ ~UnusableDataset(files[path])
        /\ rag_engine' = Some(HospitalRAG(path, use_cache, cache_file, files[path],
                                          "raise", save).engine)
        /\ cache_file' = cache_file

\* C24: a construction in which the vectorization fails leaves the engine
\* with an empty index, and every search_hospitals and
\* search_by_name_and_city on that engine returns an empty result.
C24_EmptyIndexOnVectorizationFailure ==
    [][ VectorizationFails
        => /\ EmptyIndex(rag_engine'.value)
           /\ EverySearchEmpty(rag_engine'.value) ]_vars

---------------------------------------------------------------------------
(* Effect of process_query on the memory: property checked under Spec *)

\* the step is a step of a call of process_query: its start, or one pass
\* of its generation loop
StepOfCall == turns' = turns + 1 \/ pc = "generating"

\* the three answers that are not generated
CannedAnswers == {Value(greeting_message), Value(refusal_message), Value(error_message)}

\* C25: a call of process_query adds at most one turn to the memory (no
\* step before its return changes history or context, and the step of its
\* return leaves them unchanged or appends one turn), and a call that
\* returns the welcome message, the refusal or the generic error message
\* leaves history and context unchanged.
C25_AtMostOneTurnPerCall ==
    [][ StepOfCall =>
          /\ pc' = "generating" => UNCHANGED <<history, context>>
          /\ pc' = "idle" =>
                \/ UNCHANGED <<history, context>>
                \/ /\ Len(history') = Len(history) + 1
                   /\ FirstN(history', Len(history)) = history
          /\ (pc' = "idle" /\ result' \in CannedAnswers) => UNCHANGED <<history, context>>
          /\ recorded' <= 1 ]_vars

\* a second call that ended in the generic error message after three
\* attempts: the memory holds the turn of the first call and nothing else
C25_Witness ==
    /\ pc = "idle"
    /\ turns = 2
    /\ genCalls = 3
    /\ result = Value(error_message)
    /\ Len(history) = 1
    /\ history = added
    /\ history[1].user # user_query
    /\ "last_intent" \in DOMAIN context

---------------------------------------------------------------------------
(* Context and retained history: property checked under MemorySpec *)

\* the names of a result set, in its order
NamesOf(hs) == [i \in 1..Len(hs) |-> hs[i].name]

\* the turn has results, and the context holds its cities and its names
Backs(turn) ==
    /\ turn.hospitals # <<>>
    /\ "last_cities" \in DOMAIN context
    /\ Range(context["last_cities"]) = CitiesOf(turn.hospitals)
    /\ "last_hospital_names" \in DOMAIN context
    /\ context["last_hospital_names"] = NamesOf(turn.hospitals)

\* C26: whenever the context holds last_cities or last_hospital_names, a
\* turn that is still in the history has a non-empty result set with
\* exactly those cities and names.
C26_ContextBackedByHistory ==
    ("last_cities" \in DOMAIN context \/ "last_hospital_names" \in DOMAIN context)
        => \E i \in 1..Len(history) : Backs(history[i])

=============================================================================
